---- MODULE Spec2Model ----
(***************************************************************************)
(* Polymarket collection pipeline (polymarket_scraper.py).                 *)
(*                                                                         *)
(*   get_periods            the period planner        (SpecPlanner)        *)
(*   query_graphql          the retrying client       (SpecQuery)          *)
(*   fetch_data_for_period  cursor pagination of one  (SpecFetch,          *)
(*                          window, calling the        SpecFetchFair)      *)
(*                          client for every page                          *)
(*   fetch_splits_only /    one collection run over   (SpecRun)            *)
(*   fetch_redemptions_only the planned windows,                           *)
(*                          and a second run after it                      *)
(*                                                                         *)
(* Each function is a small-step state machine over its local variables;   *)
(* a function that is not running has its locals at their idle values.     *)
(***************************************************************************)
EXTENDS Integers, Sequences, FiniteSets, TLC

VARIABLES
    \* ---- get_periods
    ppc,            \* "idle" | "loop" (at the while test) | "done" (returned)
    range_start,    \* DEC_2025_START, in days
    range_end,      \* DEC_2025_END, in days
    window,         \* timedelta(days=10), in days
    current_date,   \* local current_date
    periods,        \* local periods
    \* ---- query_graphql
    qpc,            \* "idle" | "for" | "post" | "sleep" | "returned" | "raised"
    max_retries,    \* parameter max_retries
    attempt,        \* loop variable of `for attempt in range(max_retries)`
    status,         \* outcome of the last requests.post: a status code, NET or NONE
    wait_time,      \* local wait_time, in 1/JitterSteps seconds
    sleep_from,     \* which branch called time.sleep: "http" (line 27) | "net" (line 36)
    error,          \* the exception that left query_graphql, or NoError
    result,         \* the value query_graphql returned, or NoResult
    statuses,       \* history: outcome of every request of this call
    delays,         \* history: every time.sleep of this call
    faults,         \* environment: transient failures the upstream may still produce
    \* ---- fetch_data_for_period
    fpc,            \* "idle" | "query" | "wait" | "pause" | "done" | "raised"
    upstream,       \* environment: the events the subgraph holds (id -> timestamp)
    start_timestamp,
    end_timestamp,
    last_timestamp, \* the cursor
    all_data,       \* accumulated events
    query_count,
    pages,          \* history: the non-empty pages appended, in order
    stop,           \* history: why the while loop ended
    \* ---- fetch_splits_only / fetch_redemptions_only
    rpc,            \* "idle" | "start" | "plan" | "loop" | "fetch" | "save_window" |
                    \* "save_cumulative" | "done" | "raised" | "crashed"
    data_type,      \* "splits" (fetch_splits_only) | "redemptions"
    period_i,       \* the i of `for i, period in enumerate(periods, 1)`
    all_events,     \* local all_splits / all_redemptions
    period_events,  \* local period_splits / period_redemptions
    window_files,   \* polymarket_data/<data_type>_<name>.json: name -> content
    cumulative_file,\* polymarket_data/all_<data_type>_cumulative.json
    tiebreak,       \* environment: how the subgraph orders equal timestamps
    run_no,         \* history: 1 in the first run of the program, 2 in the second
    run_windows,    \* history: what each completed fetch of this run returned
    first_files,    \* history: the files as the first run left them on return
    saw_errors,     \* history: some fetch of a run ended on an errors response
    apc,            \* "idle" | "loop" | "done" | "raised" (load_monthly_data) |
                    \* "analyze" | "analyzed" | "no_data" (run_analysis)
    pool,           \* environment: the wallet fields that occur in the data files
    month,          \* position of `for month in months`
    splits,         \* local splits: the list last loaded
    redemptions,    \* local redemptions: the list last loaded
    all_splitters_seen, all_redeemers_seen, all_users_seen,
    monthly_metrics,\* the records appended so far
    warnings,       \* the months st.warning was called for
    agg_error,      \* the exception that left load_monthly_data
    metrics,        \* the dict calculate_december_metrics returned
    cohorts,        \* history: the local sets behind each record
    activity,       \* history: the wallet strings, in lower case, of the events
                    \* of each record's files
    presence,       \* history: which files of each month read so far existed
    \* ---- load_existing_data, called by run_analysis
    lpc,            \* "idle" | "returned" | "raised"
    loaded          \* the lists splits and redemptions it returned

planner_vars == <<ppc, range_start, range_end, window, current_date, periods>>
query_vars   == <<qpc, max_retries, attempt, status, wait_time, sleep_from, error,
                  result, statuses, delays, faults>>
fetch_vars   == <<fpc, upstream, start_timestamp, end_timestamp, last_timestamp,
                  all_data, query_count, pages, stop>>
run_vars     == <<rpc, data_type, period_i, all_events, period_events, window_files,
                  cumulative_file, tiebreak, run_no, run_windows, first_files,
                  saw_errors>>
agg_vars     == <<apc, pool, month, splits, redemptions, all_splitters_seen,
                 all_redeemers_seen, all_users_seen, monthly_metrics, warnings,
                 agg_error, metrics, cohorts, activity, presence>>
load_vars    == <<lpc, loaded>>
vars == <<planner_vars, query_vars, fetch_vars, run_vars, agg_vars, load_vars>>

Min(a, b) == IF a <= b THEN a ELSE b

RECURSIVE Pow2(_)
Pow2(n) == IF n = 0 THEN 1 ELSE 2 * Pow2(n - 1)

\* A file: absent, written whole ("ok"), or cut short by a stop of the process
\* between open(..., 'w') and the end of json.dump ("torn": no JSON document).
NoFile       == [state |-> "absent", events |-> <<>>]
OkFile(evs)  == [state |-> "ok", events |-> evs]
TornFile     == [state |-> "torn", events |-> <<>>]
NoFiles      == [w |-> <<>>, c |-> NoFile, taken |-> FALSE]

\* fetch_splits_only / fetch_redemptions_only is not running and has left no file
RunIdle ==
    /\ rpc = "idle"
    /\ data_type = "NONE"
    /\ period_i = 0
    /\ all_events = <<>> /\ period_events = <<>>
    /\ window_files = <<>> /\ cumulative_file = NoFile
    /\ tiebreak = "any"
    /\ run_no = 0 /\ run_windows = <<>>
    /\ first_files = NoFiles
    /\ saw_errors = FALSE

NoMetrics == [month |-> "NONE"]

\* load_monthly_data and run_analysis are not running
AggIdle ==
    /\ apc = "idle" /\ pool = "NONE" /\ month = 0
    /\ splits = <<>> /\ redemptions = <<>>
    /\ all_splitters_seen = {} /\ all_redeemers_seen = {} /\ all_users_seen = {}
    /\ monthly_metrics = <<>> /\ warnings = <<>>
    /\ agg_error = "NONE"
    /\ metrics = NoMetrics
    /\ cohorts = <<>> /\ activity = <<>> /\ presence = <<>>

NoLoaded == [splits |-> <<>>, redemptions |-> <<>>]

\* load_existing_data is not running
LoadIdle ==
    /\ lpc = "idle"
    /\ loaded = NoLoaded

(***************************************************************************)
(* Bounds of the model.                                                    *)
(***************************************************************************)
MaxDay      == 6    \* planner ranges are drawn from 0..MaxDay
MaxWindow   == 3    \* planner window lengths are drawn from 1..MaxWindow

(***************************************************************************)
(* get_periods (lines 105-119).  Time is counted in days from the midnight *)
(* of DEC_2025_START; every datetime the planner handles is a midnight.    *)
(***************************************************************************)
DEC_2025_START == 0     \* datetime(2025, 12, 1)
DEC_2025_END   == 31    \* datetime(2026, 1, 1)
WINDOW_DAYS    == 10    \* timedelta(days=10)
EPOCH_DEC_2025 == 1764547200    \* datetime(2025, 12, 1).timestamp(), UTC
SECONDS_PER_DAY == 86400

\* int(d.timestamp())
TimestampOf(d) == EPOCH_DEC_2025 + (d - DEC_2025_START) * SECONDS_PER_DAY

\* f"{start:%Y-%m-%d}_to_{end:%Y-%m-%d}": one label per pair of dates
PeriodName(s, e) == <<s, e>>

\* line 110 without the min: period_end = current_date + timedelta(days=10)
PeriodEndUnclamped(cur, w, rend) == cur + w

\* line 110: period_end = min(current_date + timedelta(days=10), DEC_2025_END)
PeriodEnd(cur, w, rend) == Min(cur + w, rend)

Period(s, e) ==
    [start |-> s, end |-> e, start_ts |-> TimestampOf(s), end_ts |-> TimestampOf(e),
     name |-> PeriodName(s, e)]

PlannerIdle ==
    /\ ppc = "idle"
    /\ range_start = 0 /\ range_end = 0 /\ window = 0
    /\ current_date = 0
    /\ periods = <<>>

\* The inputs: the program's own range and window, and every small range.
PlannerInputs ==
    {<<DEC_2025_START, DEC_2025_END, WINDOW_DAYS>>}
        \cup {<<s, e, w>> : s \in 0..MaxDay, e \in 0..MaxDay, w \in 1..MaxWindow}

\* lines 107-108; query_graphql and fetch_data_for_period are not running
InitPlanner ==
    /\ \E inp \in PlannerInputs :
        /\ range_start = inp[1]
        /\ range_end = inp[2]
        /\ window = inp[3]
        /\ current_date = inp[1]
    /\ ppc = "loop"
    /\ periods = <<>>
    /\ qpc = "idle"
    /\ max_retries = 0 /\ attempt = 0
    /\ status = "NONE" /\ wait_time = 0 /\ sleep_from = "NONE"
    /\ error = [type |-> "none", msg |-> "none", code |-> "NONE"]
    /\ result = [kind |-> "none", events |-> <<>>]
    /\ statuses = <<>> /\ delays = <<>> /\ faults = 0
    /\ fpc = "idle"
    /\ upstream = <<>>
    /\ start_timestamp = 0 /\ end_timestamp = 0 /\ last_timestamp = 0
    /\ all_data = <<>> /\ query_count = 0
    /\ pages = <<>> /\ stop = "NONE"
    /\ RunIdle
    /\ AggIdle
    /\ LoadIdle

\* lines 109-118: one iteration of the while loop
PlanPeriod ==
    /\ ppc = "loop"
    /\ current_date < range_end
    /\ LET period_end == PeriodEnd(current_date, window, range_end)
       IN /\ periods' = Append(periods, Period(current_date, period_end))
          /\ current_date' = period_end
    /\ UNCHANGED <<ppc, range_start, range_end, window>>
    /\ UNCHANGED <<query_vars, fetch_vars, run_vars>>
    /\ UNCHANGED <<agg_vars, load_vars>>

\* lines 109, 119: the while test fails, return periods
PlanReturn ==
    /\ ppc = "loop"
    /\ ~(current_date < range_end)
    /\ ppc' = "done"
    /\ UNCHANGED <<range_start, range_end, window, current_date, periods>>
    /\ UNCHANGED <<query_vars, fetch_vars, run_vars>>
    /\ UNCHANGED <<agg_vars, load_vars>>

(***************************************************************************)
(* The subgraph, as fetch_data_for_period queries it (lines 58-74):        *)
(*   first: batch_size, where: {timestamp_gte: start, timestamp_lt: last}, *)
(*   orderBy: timestamp, orderDirection: desc                              *)
(* It holds a finite set of events and honours the filter and the order;   *)
(* the order among events of one timestamp is its own choice.  The event   *)
(* ids stand for the identity of an upstream entity: the program never     *)
(* reads them.  A timestamp travels as a decimal string (GraphQL BigInt).  *)
(***************************************************************************)
MaxEvents == 4      \* the subgraph holds at most MaxEvents events
TsBase    == 8      \* the lowest timestamp of the model
batch_size == 2     \* line 44 sets batch_size = 1000; the model scales it down

\* The timestamps events are drawn from: one below the window, MaxEvents
\* inside it, and the window's end.
WindowStart == TsBase + 1
WindowEnd   == WindowStart + MaxEvents
Times == TsBase..WindowEnd

\* str(n) for n >= 0, as a sequence of digits
RECURSIVE DecStr(_)
DecStr(n) == IF n < 10 THEN <<n>> ELSE Append(DecStr(n \div 10), n % 10)

\* int(s) for a sequence of digits s
RECURSIVE IntOf(_)
IntOf(s) ==
    IF Len(s) = 0 THEN 0
    ELSE 10 * IntOf(SubSeq(s, 1, Len(s) - 1)) + s[Len(s)]

\* The upstream contents: n events, ids 1..n, listed by ascending timestamp.
Upstreams ==
    UNION {{u \in [1..n -> Times] : \A i \in 1..n, j \in 1..n : i <= j => u[i] <= u[j]}
             : n \in 0..MaxEvents}

Event(u, i) == [id |-> i, timestamp |-> DecStr(u[i])]

\* line 64 with timestamp_lte for timestamp_lt
MatchingLte(u, lo, hi) == {i \in DOMAIN u : lo <= u[i] /\ u[i] <= hi}

\* lines 62-65: where: {timestamp_gte: lo, timestamp_lt: hi}
Matching(u, lo, hi) == {i \in DOMAIN u : lo <= u[i] /\ u[i] < hi}

\* The answers to one query: the first `first` matching events in descending
\* timestamp order, for every order the subgraph may give equal timestamps.
PagesOf(u, lo, hi, first) ==
    LET M == Matching(u, lo, hi)
        n == Min(first, Cardinality(M))
        Ids == {p \in [1..n -> M] :
                  /\ \A a \in 1..n, b \in 1..n : a < b => p[a] # p[b] /\ u[p[a]] >= u[p[b]]
                  /\ \A i \in M : (\A a \in 1..n : p[a] # i)
                                    => \A a \in 1..n : u[i] <= u[p[a]]}
    IN {[a \in 1..n |-> Event(u, p[a])] : p \in Ids}

\* The order of the subgraph among events of one timestamp: by ascending id,
\* by descending id, or any order at every query ("any").
Before(x, y, tb) == IF tb = "asc" THEN x < y ELSE x > y

TieOrdered(u, lo, hi, q, tb) ==
    \/ tb = "any"
    \/ /\ \A a \in 1..Len(q), b \in 1..Len(q) :
            (a < b /\ q[a].timestamp = q[b].timestamp) => Before(q[a].id, q[b].id, tb)
       /\ \A i \in Matching(u, lo, hi), a \in 1..Len(q) :
            ((\A b \in 1..Len(q) : q[b].id # i) /\ u[i] = u[q[a].id])
                => Before(q[a].id, i, tb)

ErrorsBody == [kind |-> "errors", events |-> <<>>]
DataBody(page) == [kind |-> "data", events |-> page]

\* The JSON bodies the subgraph may send with status 200 to the query in flight.
UpstreamBodies ==
    {ErrorsBody} \cup
    {DataBody(p) : p \in
        {q \in PagesOf(upstream, start_timestamp, last_timestamp, batch_size) :
            TieOrdered(upstream, start_timestamp, last_timestamp, q, tiebreak)}}

(***************************************************************************)
(* query_graphql (lines 16-38).                                            *)
(*                                                                         *)
(* An HTTP outcome is the status code of the response, or NET when         *)
(* requests.post raised a requests.exceptions.RequestException.  A 200     *)
(* response of the subgraph carries a JSON body, so response.json()        *)
(* returns it.  Delays are counted in 1/JitterSteps seconds:               *)
(* random.uniform(0, 1) is one of 0/JitterSteps .. (JitterSteps-1)/        *)
(* JitterSteps.                                                            *)
(***************************************************************************)
JitterSteps == 2    \* resolution of the random jitter

DEFAULT_MAX_RETRIES == 5    \* def query_graphql(query, max_retries=5)

NONE == "NONE"
NET  == "NET"
HttpStatuses  == {"200", "400", "500", "502", "503", "504"}
\* line 23 with 500 taken for a transient status too
RetryStatusesWide == {"500", "502", "503", "504"}

\* line 23: elif response.status_code in [502, 503, 504]
RetryStatuses == {"502", "503", "504"}

NoError == [type |-> "none", msg |-> "none", code |-> NONE]
\* line 30 with the status code left out of the message
QueryFailedBare(code) == [type |-> "Exception", msg |-> "Query failed", code |-> NONE]

\* line 30: raise Exception(f"Query failed: {response.status_code} - ...")
QueryFailed(code) == [type |-> "Exception", msg |-> "Query failed", code |-> code]
\* line 33: raise  (the RequestException caught at line 31)
NetworkError == [type |-> "RequestException", msg |-> "network", code |-> NET]
\* line 38 raising the error of line 30 for the last status seen
MaxRetriesAsQueryFailed ==
    [type |-> "Exception", msg |-> "Query failed", code |-> "503"]

\* line 38: raise Exception("Max retries exceeded")
MaxRetriesExceeded ==
    [type |-> "Exception", msg |-> "Max retries exceeded", code |-> NONE]

NoResult == [kind |-> "none", events |-> <<>>]

\* line 25 with 2 * attempt for 2 ** attempt
WaitTimeLinear(att, j) == 2 * att * JitterSteps + j

\* (2 ** attempt) + random.uniform(0, 1), jitter j of JitterSteps
WaitTime(att, j) == Pow2(att) * JitterSteps + j

\* line 32: if attempt == max_retries - 1
LastAttempt(att, mr) == att = mr - 1

QueryIdle ==
    /\ qpc = "idle"
    /\ max_retries = 0 /\ attempt = 0
    /\ status = NONE /\ wait_time = 0 /\ sleep_from = NONE
    /\ error = NoError /\ result = NoResult
    /\ statuses = <<>> /\ delays = <<>>

\* line 18: the head of `for attempt in range(max_retries)`; line 38 when the
\* range is exhausted
QueryFor ==
    /\ qpc = "for"
    /\ IF attempt < max_retries
         THEN /\ qpc' = "post"
              /\ UNCHANGED error
         ELSE /\ qpc' = "raised"
              /\ error' = MaxRetriesExceeded
    /\ UNCHANGED <<max_retries, attempt, status, wait_time, sleep_from, result,
                   statuses, delays, faults>>
    /\ UNCHANGED <<planner_vars, fetch_vars, run_vars>>
    /\ UNCHANGED <<agg_vars, load_vars>>

\* lines 20-22: the response has status 200, return response.json()
QueryOk ==
    /\ qpc = "post"
    /\ \E body \in UpstreamBodies :
        result' = body
    /\ status' = "200"
    /\ statuses' = Append(statuses, "200")
    /\ qpc' = "returned"
    /\ UNCHANGED <<max_retries, attempt, wait_time, sleep_from, error, delays, faults>>
    /\ UNCHANGED <<planner_vars, fetch_vars, run_vars>>
    /\ UNCHANGED <<agg_vars, load_vars>>

\* lines 23-28: status 502/503/504, sleep and continue
QueryServerError ==
    /\ qpc = "post"
    /\ faults > 0
    /\ \E code \in HttpStatuses \ {"200"}, j \in 0..(JitterSteps - 1) :
        /\ code \in RetryStatuses
        /\ status' = code
        /\ statuses' = Append(statuses, code)
        /\ wait_time' = WaitTime(attempt, j)
        /\ delays' = Append(delays, WaitTime(attempt, j))
    /\ sleep_from' = "http"
    /\ qpc' = "sleep"
    /\ faults' = faults - 1
    /\ UNCHANGED <<max_retries, attempt, error, result>>
    /\ UNCHANGED <<planner_vars, fetch_vars, run_vars>>
    /\ UNCHANGED <<agg_vars, load_vars>>

\* lines 29-30: any other status, raise; the Exception is no RequestException,
\* so the handler of line 31 lets it through
QueryOtherStatus ==
    /\ qpc = "post"
    /\ faults > 0
    /\ \E code \in HttpStatuses \ {"200"} :
        /\ code \notin RetryStatuses
        /\ status' = code
        /\ statuses' = Append(statuses, code)
        /\ error' = QueryFailed(code)
    /\ qpc' = "raised"
    /\ faults' = faults - 1
    /\ UNCHANGED <<max_retries, attempt, wait_time, sleep_from, result, delays>>
    /\ UNCHANGED <<planner_vars, fetch_vars, run_vars>>
    /\ UNCHANGED <<agg_vars, load_vars>>

\* lines 31-36: requests.post raised a RequestException
QueryNetworkError ==
    /\ qpc = "post"
    /\ faults > 0
    /\ status' = NET
    /\ statuses' = Append(statuses, NET)
    /\ faults' = faults - 1
    /\ IF LastAttempt(attempt, max_retries)
         THEN /\ qpc' = "raised"
              /\ error' = NetworkError
              /\ UNCHANGED <<wait_time, sleep_from, delays>>
         ELSE /\ \E j \in 0..(JitterSteps - 1) :
                  /\ wait_time' = WaitTime(attempt, j)
                  /\ delays' = Append(delays, WaitTime(attempt, j))
              /\ sleep_from' = "net"
              /\ qpc' = "sleep"
              /\ UNCHANGED error
    /\ UNCHANGED <<max_retries, attempt, result>>
    /\ UNCHANGED <<planner_vars, fetch_vars, run_vars>>
    /\ UNCHANGED <<agg_vars, load_vars>>

\* lines 27-28 and 36: time.sleep returns, the loop takes its next value
QueryWake ==
    /\ qpc = "sleep"
    /\ attempt' = attempt + 1
    /\ qpc' = "for"
    /\ UNCHANGED <<max_retries, status, wait_time, sleep_from, error, result,
                   statuses, delays, faults>>
    /\ UNCHANGED <<planner_vars, fetch_vars, run_vars>>
    /\ UNCHANGED <<agg_vars, load_vars>>

(***************************************************************************)
(* fetch_data_for_period (lines 40-103).                                   *)
(***************************************************************************)
FetchIdle ==
    /\ fpc = "idle"
    /\ upstream = <<>>
    /\ start_timestamp = 0 /\ end_timestamp = 0 /\ last_timestamp = 0
    /\ all_data = <<>> /\ query_count = 0
    /\ pages = <<>> /\ stop = NONE

\* lines 42-45.  The window is fixed, the upstream contents are any.  During
\* one fetch the upstream fails a single request at most (a 5xx or other
\* status, or a network fault, on any request of any page); the exhaustion of
\* all retries is explored in SpecQuery.
InitFetch ==
    /\ upstream \in Upstreams
    /\ start_timestamp = WindowStart
    /\ end_timestamp = WindowEnd
    /\ all_data = <<>>
    /\ last_timestamp = end_timestamp
    /\ query_count = 0
    /\ fpc = "query"
    /\ pages = <<>> /\ stop = NONE
    /\ QueryIdle
    /\ faults = 1
    /\ PlannerIdle
    /\ RunIdle
    /\ AggIdle
    /\ LoadIdle

\* lines 58-77: build the query, count it, call query_graphql(query)
FetchQuery ==
    /\ fpc = "query"
    /\ query_count' = query_count + 1
    /\ fpc' = "wait"
    /\ qpc' = "for"
    /\ max_retries' = DEFAULT_MAX_RETRIES
    /\ attempt' = 0
    /\ UNCHANGED <<status, wait_time, sleep_from, error, result, statuses, delays, faults>>
    /\ UNCHANGED <<upstream, start_timestamp, end_timestamp, last_timestamp, all_data,
                   pages, stop>>
    /\ UNCHANGED <<planner_vars, run_vars>>
    /\ UNCHANGED <<agg_vars, load_vars>>

\* query_graphql has returned or raised: its locals are gone
QueryLeft ==
    /\ qpc' = "idle"
    /\ max_retries' = 0 /\ attempt' = 0
    /\ status' = NONE /\ wait_time' = 0 /\ sleep_from' = NONE
    /\ error' = NoError /\ result' = NoResult
    /\ statuses' = <<>> /\ delays' = <<>>
    /\ UNCHANGED faults

\* line 77: query_graphql raised; nothing catches it, the exception leaves
\* fetch_data_for_period
FetchRaise ==
    /\ fpc = "wait" /\ qpc = "raised"
    /\ fpc' = "raised"
    /\ stop' = "raised"
    /\ qpc' = "idle"
    /\ max_retries' = 0 /\ attempt' = 0
    /\ status' = NONE /\ wait_time' = 0 /\ sleep_from' = NONE
    /\ result' = NoResult
    /\ statuses' = <<>> /\ delays' = <<>>
    /\ UNCHANGED <<error, faults>>
    /\ UNCHANGED <<upstream, start_timestamp, end_timestamp, last_timestamp, all_data,
                   query_count, pages>>
    /\ UNCHANGED <<planner_vars, run_vars>>
    /\ UNCHANGED <<agg_vars, load_vars>>

\* lines 79-81 raising on an errors response instead of breaking
FetchErrorsRaise ==
    /\ fpc = "wait" /\ qpc = "returned"
    /\ result.kind = "errors"
    /\ fpc' = "raised"
    /\ stop' = "raised"
    /\ error' = [type |-> "Exception", msg |-> "GraphQL Error", code |-> NONE]
    /\ qpc' = "idle"
    /\ max_retries' = 0 /\ attempt' = 0
    /\ status' = NONE /\ wait_time' = 0 /\ sleep_from' = NONE
    /\ result' = NoResult
    /\ statuses' = <<>> /\ delays' = <<>>
    /\ UNCHANGED faults
    /\ UNCHANGED <<upstream, start_timestamp, end_timestamp, last_timestamp, all_data,
                   query_count, pages>>
    /\ UNCHANGED <<planner_vars, run_vars>>
    /\ UNCHANGED <<agg_vars, load_vars>>

\* lines 79-81, 103: 'errors' in result, break and return all_data
FetchErrors ==
    /\ fpc = "wait" /\ qpc = "returned"
    /\ result.kind = "errors"
    /\ fpc' = "done"
    /\ stop' = "errors"
    /\ QueryLeft
    /\ UNCHANGED <<upstream, start_timestamp, end_timestamp, last_timestamp, all_data,
                   query_count, pages>>
    /\ UNCHANGED <<planner_vars, run_vars>>
    /\ UNCHANGED <<agg_vars, load_vars>>

\* lines 83-87, 103: the page is empty, break and return all_data
FetchEmpty ==
    /\ fpc = "wait" /\ qpc = "returned"
    /\ result.kind = "data"
    /\ result.events = <<>>
    /\ fpc' = "done"
    /\ stop' = "empty"
    /\ QueryLeft
    /\ UNCHANGED <<upstream, start_timestamp, end_timestamp, last_timestamp, all_data,
                   query_count, pages>>
    /\ UNCHANGED <<planner_vars, run_vars>>
    /\ UNCHANGED <<agg_vars, load_vars>>

\* line 93 reading data[0] for data[-1]
NextCursorFirst(data) == IntOf(data[1].timestamp)

\* line 93: last_timestamp = int(data[-1]['timestamp'])
NextCursor(data) == IntOf(data[Len(data)].timestamp)

\* line 96 with <= for <
ShortPageLe(data) == Len(data) <= batch_size

\* line 96: if len(data) < batch_size
ShortPage(data) == Len(data) < batch_size

\* lines 83-101: a non-empty page: extend all_data, move the cursor, break on a
\* short page (and return all_data, line 103), else sleep 0.1 s and loop
FetchPage ==
    /\ fpc = "wait" /\ qpc = "returned"
    /\ result.kind = "data"
    /\ result.events # <<>>
    /\ LET data == result.events
       IN /\ all_data' = all_data \o data
          /\ pages' = Append(pages, data)
          /\ last_timestamp' = NextCursor(data)
          /\ IF ShortPage(data)
               THEN fpc' = "done" /\ stop' = "short"
               ELSE fpc' = "query" /\ UNCHANGED stop
    /\ QueryLeft
    /\ UNCHANGED <<upstream, start_timestamp, end_timestamp, query_count>>
    /\ UNCHANGED <<planner_vars, run_vars>>
    /\ UNCHANGED <<agg_vars, load_vars>>

(***************************************************************************)
(* fetch_splits_only (lines 121-168) and fetch_redemptions_only (lines     *)
(* 170-217): the same code over the splits and the redemptions entity.     *)
(* The files a run writes are those of its data_type:                      *)
(*   polymarket_data/<data_type>_<name>.json     window_files[name]        *)
(*   polymarket_data/all_<data_type>_cumulative.json    cumulative_file    *)
(* The subgraph of a run holds events at the start of the first window, at *)
(* the start of the second, and at the end of the range; the same query is *)
(* given the same answer unless an errors response or a failure intervenes.*)
(***************************************************************************)
MaxRunEvents == 3   \* the subgraph of a run holds at most MaxRunEvents events

RunDays == {DEC_2025_START, DEC_2025_START + WINDOW_DAYS, DEC_2025_END}

RunUpstreams ==
    UNION {{u \in [1..n -> {TimestampOf(d) : d \in RunDays}] :
                \A i \in 1..n, j \in 1..n : i <= j => u[i] <= u[j]}
             : n \in 0..MaxRunEvents}

\* open(path, 'a') for open(path, 'w')
AppendFile(old, evs) == OkFile(old.events \o evs)

\* lines 152-153, 157-158 (201-202, 206-207): open(path, 'w') truncates, json.dump
\* writes the list
WriteFile(old, evs) == OkFile(evs)

\* line 158 dumping period_splits for all_splits
CumulativeOfPeriod(all, period) == period

\* line 158 (207): json.dump(all_splits, f)
CumulativeContent(all, period) == all

FileAt(files, name) == IF name \in DOMAIN files THEN files[name] ELSE NoFile

PutFile(files, name, file) ==
    [n \in DOMAIN files \cup {name} |-> IF n = name THEN file ELSE files[n]]

\* the process has ended: its memory is gone
LocalsGone ==
    /\ all_events' = <<>> /\ period_events' = <<>>
    /\ ppc' = "idle"
    /\ range_start' = 0 /\ range_end' = 0 /\ window' = 0 /\ current_date' = 0
    /\ periods' = <<>>
    /\ fpc' = "idle"
    /\ start_timestamp' = 0 /\ end_timestamp' = 0 /\ last_timestamp' = 0
    /\ all_data' = <<>> /\ query_count' = 0
    /\ pages' = <<>> /\ stop' = NONE
    /\ qpc' = "idle"
    /\ max_retries' = 0 /\ attempt' = 0
    /\ status' = NONE /\ wait_time' = 0 /\ sleep_from' = NONE
    /\ result' = NoResult
    /\ statuses' = <<>> /\ delays' = <<>>
    /\ UNCHANGED <<upstream, faults>>

\* lines 123-124 (172-173): makedirs, periods = get_periods()
RunStart ==
    /\ rpc = "start"
    /\ rpc' = "plan"
    /\ ppc' = "loop"
    /\ range_start' = DEC_2025_START
    /\ range_end' = DEC_2025_END
    /\ window' = WINDOW_DAYS
    /\ current_date' = DEC_2025_START
    /\ periods' = <<>>
    /\ UNCHANGED <<data_type, period_i, all_events, period_events, window_files,
                   cumulative_file, tiebreak, run_no, run_windows, first_files,
                   saw_errors>>
    /\ UNCHANGED <<query_vars, fetch_vars>>
    /\ UNCHANGED <<agg_vars, load_vars>>

\* lines 124-134 (173-183): get_periods has returned; all_splits = []
RunPlanned ==
    /\ rpc = "plan" /\ ppc = "done"
    /\ rpc' = "loop"
    /\ all_events' = <<>>
    /\ period_i' = 1
    /\ UNCHANGED <<data_type, period_events, window_files, cumulative_file, tiebreak,
                   run_no, run_windows, first_files, saw_errors>>
    /\ UNCHANGED <<planner_vars, query_vars, fetch_vars>>
    /\ UNCHANGED <<agg_vars, load_vars>>

\* lines 136-146 (185-195): the next period of the for loop; call
\* fetch_data_for_period(period['start_ts'], period['end_ts'], data_type)
RunFetch ==
    /\ rpc = "loop"
    /\ period_i <= Len(periods)
    /\ rpc' = "fetch"
    /\ start_timestamp' = periods[period_i].start_ts
    /\ end_timestamp' = periods[period_i].end_ts
    /\ all_data' = <<>>
    /\ last_timestamp' = periods[period_i].end_ts
    /\ query_count' = 0
    /\ fpc' = "query"
    /\ pages' = <<>> /\ stop' = NONE
    /\ UNCHANGED upstream
    /\ UNCHANGED <<data_type, period_i, all_events, period_events, window_files,
                   cumulative_file, tiebreak, run_no, run_windows, first_files,
                   saw_errors>>
    /\ UNCHANGED <<planner_vars, query_vars>>
    /\ UNCHANGED <<agg_vars, load_vars>>

\* lines 142-149 (191-198): fetch_data_for_period has returned its all_data
RunFetched ==
    /\ rpc = "fetch" /\ fpc = "done"
    /\ rpc' = "save_window"
    /\ period_events' = all_data
    /\ all_events' = all_events \o all_data
    /\ run_windows' = Append(run_windows,
                             [name |-> periods[period_i].name, events |-> all_data])
    /\ saw_errors' = (saw_errors \/ stop = "errors")
    /\ fpc' = "idle"
    /\ start_timestamp' = 0 /\ end_timestamp' = 0 /\ last_timestamp' = 0
    /\ all_data' = <<>> /\ query_count' = 0
    /\ pages' = <<>> /\ stop' = NONE
    /\ UNCHANGED upstream
    /\ UNCHANGED <<data_type, period_i, window_files, cumulative_file, tiebreak, run_no,
                   first_files>>
    /\ UNCHANGED <<planner_vars, query_vars>>
    /\ UNCHANGED <<agg_vars, load_vars>>

\* line 142 (191) inside a try whose handler takes the window as empty and
\* goes on to save it
RunFetchRaisedCaught ==
    /\ rpc = "fetch" /\ fpc = "raised"
    /\ rpc' = "save_window"
    /\ period_events' = <<>>
    /\ run_windows' = Append(run_windows,
                             [name |-> periods[period_i].name, events |-> <<>>])
    /\ fpc' = "idle"
    /\ start_timestamp' = 0 /\ end_timestamp' = 0 /\ last_timestamp' = 0
    /\ all_data' = <<>> /\ query_count' = 0
    /\ pages' = <<>> /\ stop' = NONE
    /\ error' = NoError
    /\ UNCHANGED <<qpc, max_retries, attempt, status, wait_time, sleep_from, result,
                   statuses, delays, faults>>
    /\ UNCHANGED upstream
    /\ UNCHANGED <<data_type, period_i, all_events, window_files, cumulative_file,
                   tiebreak, run_no, first_files, saw_errors>>
    /\ UNCHANGED planner_vars
    /\ UNCHANGED <<agg_vars, load_vars>>

\* line 142 (191): fetch_data_for_period raised; nothing in the run catches
\* it, the exception ends the run and the process
RunFetchRaised ==
    /\ rpc = "fetch" /\ fpc = "raised"
    /\ rpc' = "raised"
    /\ LocalsGone
    /\ UNCHANGED error
    /\ UNCHANGED <<data_type, period_i, window_files, cumulative_file, tiebreak, run_no,
                   run_windows, first_files, saw_errors>>
    /\ UNCHANGED <<agg_vars, load_vars>>

\* lines 152-154 (201-203): write the file of the period
RunSaveWindow ==
    /\ rpc = "save_window"
    /\ rpc' = "save_cumulative"
    /\ LET name == periods[period_i].name
       IN window_files' = PutFile(window_files, name,
                                  WriteFile(FileAt(window_files, name), period_events))
    /\ UNCHANGED <<data_type, period_i, all_events, period_events, cumulative_file,
                   tiebreak, run_no, run_windows, first_files, saw_errors>>
    /\ UNCHANGED <<planner_vars, query_vars, fetch_vars>>
    /\ UNCHANGED <<agg_vars, load_vars>>

\* lines 157-165 (206-214): write the cumulative file, pause, next period
RunSaveCumulative ==
    /\ rpc = "save_cumulative"
    /\ rpc' = "loop"
    /\ cumulative_file' = WriteFile(cumulative_file,
                                    CumulativeContent(all_events, period_events))
    /\ period_i' = period_i + 1
    /\ UNCHANGED <<data_type, all_events, period_events, window_files, tiebreak, run_no,
                   run_windows, first_files, saw_errors>>
    /\ UNCHANGED <<planner_vars, query_vars, fetch_vars>>
    /\ UNCHANGED <<agg_vars, load_vars>>

\* lines 136, 167-168 (185, 216-217): the for loop is exhausted, return
RunReturn ==
    /\ rpc = "loop"
    /\ period_i > Len(periods)
    /\ rpc' = "done"
    /\ first_files' = IF run_no = 1
                        THEN [w |-> window_files, c |-> cumulative_file, taken |-> TRUE]
                        ELSE first_files
    /\ LocalsGone
    /\ UNCHANGED error
    /\ UNCHANGED <<data_type, period_i, window_files, cumulative_file, tiebreak, run_no,
                   run_windows, saw_errors>>
    /\ UNCHANGED <<agg_vars, load_vars>>

Running == {"start", "plan", "loop", "fetch", "save_window", "save_cumulative"}

\* The process is stopped from outside (a signal, a power cut) at any point.
\* A file whose json.dump was under way may be left cut short.
RunCrash ==
    /\ rpc \in Running
    /\ rpc' = "crashed"
    /\ \/ UNCHANGED <<window_files, cumulative_file>>
       \/ /\ rpc = "save_window"
          /\ window_files' = PutFile(window_files, periods[period_i].name, TornFile)
          /\ UNCHANGED cumulative_file
       \/ /\ rpc = "save_cumulative"
          /\ cumulative_file' = TornFile
          /\ UNCHANGED window_files
    /\ LocalsGone
    /\ error' = NoError
    /\ UNCHANGED <<data_type, period_i, tiebreak, run_no, run_windows, first_files,
                   saw_errors>>
    /\ UNCHANGED <<agg_vars, load_vars>>

\* The program is started again on the files the first run left.
RunAgain ==
    /\ rpc \in {"done", "raised", "crashed"}
    /\ run_no = 1
    /\ lpc = "idle"
    /\ rpc' = "start"
    /\ run_no' = 2
    /\ period_i' = 0
    /\ run_windows' = <<>>
    /\ error' = NoError
    /\ UNCHANGED <<data_type, all_events, period_events, window_files, cumulative_file,
                   tiebreak, first_files, saw_errors>>
    /\ UNCHANGED <<qpc, max_retries, attempt, status, wait_time, sleep_from, result,
                   statuses, delays, faults>>
    /\ UNCHANGED <<planner_vars, fetch_vars>>
    /\ UNCHANGED <<agg_vars, load_vars>>

(***************************************************************************)
(* load_existing_data (lines 219-264), called by run_analysis (line 303)   *)
(* in a process started after a collection run has ended.  The directory   *)
(* holds the files of the kind the runs collected; no file of the other    *)
(* kind was ever written, so each of its opens raises FileNotFoundError.   *)
(***************************************************************************)
RECURSIVE get_periods(_, _, _)
\* lines 105-119, as one value: the periods from cur to rend, w days each
get_periods(cur, rend, w) ==
    IF cur < rend
    THEN <<Period(cur, PeriodEnd(cur, w, rend))>>
             \o get_periods(PeriodEnd(cur, w, rend), rend, w)
    ELSE <<>>

\* polymarket_data/all_<kind>_cumulative.json as the loader finds it
CumulativeOfKind(kind) ==
    IF kind = data_type THEN cumulative_file ELSE NoFile

\* polymarket_data/<kind>_<name>.json as the loader finds it
WindowOfKind(kind, name) ==
    IF kind = data_type THEN FileAt(window_files, name) ELSE NoFile

RECURSIVE LoadPeriods(_, _)
\* lines 237-244 (254-261): the for loop over the periods ps; a file that
\* exists extends the list, a missing one is skipped
LoadPeriods(kind, ps) ==
    IF ps = <<>>
    THEN <<>>
    ELSE (IF WindowOfKind(kind, Head(ps).name).state = "ok"
          THEN WindowOfKind(kind, Head(ps).name).events
          ELSE <<>>) \o LoadPeriods(kind, Tail(ps))

\* lines 229-244 (246-261): the cumulative file when it exists, else the
\* per-window files of the planner's periods
LoadKind(kind) ==
    IF CumulativeOfKind(kind).state = "absent"
    THEN LoadPeriods(kind, get_periods(DEC_2025_START, DEC_2025_END, WINDOW_DAYS))
    ELSE CumulativeOfKind(kind).events

\* lines 232, 241 (249, 258): json.load raises JSONDecodeError on a file that
\* was cut short, and no except clause catches it
LoadKindRaises(kind) ==
    \/ CumulativeOfKind(kind).state = "torn"
    \/ /\ CumulativeOfKind(kind).state = "absent"
       /\ \E k \in DOMAIN get_periods(DEC_2025_START, DEC_2025_END, WINDOW_DAYS) :
              WindowOfKind(kind,
                  get_periods(DEC_2025_START, DEC_2025_END, WINDOW_DAYS)[k].name).state
                  = "torn"

\* line 303 and lines 219-264: load_existing_data returns both lists
LoadExisting ==
    /\ rpc \in {"done", "raised", "crashed"}
    /\ lpc = "idle"
    /\ ~LoadKindRaises("splits")
    /\ ~LoadKindRaises("redemptions")
    /\ lpc' = "returned"
    /\ loaded' = [splits |-> LoadKind("splits"), redemptions |-> LoadKind("redemptions")]
    /\ UNCHANGED <<planner_vars, query_vars, fetch_vars, run_vars>>
    /\ UNCHANGED agg_vars

\* line 303 and lines 232, 241, 249, 258: load_existing_data raises
LoadRaise ==
    /\ rpc \in {"done", "raised", "crashed"}
    /\ lpc = "idle"
    /\ LoadKindRaises("splits") \/ LoadKindRaises("redemptions")
    /\ lpc' = "raised"
    /\ UNCHANGED loaded
    /\ UNCHANGED <<planner_vars, query_vars, fetch_vars, run_vars>>
    /\ UNCHANGED agg_vars

(***************************************************************************)
(* The aggregators: load_monthly_data (app.py, lines 25-95) and            *)
(* calculate_december_metrics (polymarket_scraper.py, lines 266-299).      *)
(*                                                                         *)
(* An event is reduced to its wallet field (stakeholder of a split,        *)
(* redeemer of a redemption): the key is absent, the value is null, or the *)
(* value is a string, kept as the sequence of its characters.  A data file *)
(* holds at most two events, listed in the order of the pool; a rate is    *)
(* kept as the exact fraction the division is applied to.                  *)
(***************************************************************************)
MaxMonths == 2      \* line 27 lists the 12 months of 2025; the model scales it down

months == [i \in 1..MaxMonths |-> i]

\* line 36: month_name = f"2025-{month}"
MonthName(mo) == <<2025, mo>>

Absent  == [kind |-> "absent", chars |-> <<>>]
Null    == [kind |-> "null", chars |-> <<>>]
Str(cs) == [kind |-> "str", chars |-> cs]

\* str.lower() on the letters of the model
LowerChar(c) ==
    CASE c = "A" -> "a"
      [] c = "B" -> "b"
      [] c = "C" -> "c"
      [] c = "D" -> "d"
      [] OTHER -> c

\* str.lower() as the identity
LowerKeepsCase(s) == s

\* str.lower()
Lower(s) == IF s = <<>> THEN <<>> ELSE [i \in 1..Len(s) |-> LowerChar(s[i])]

Fields(evs) == {evs[k] : k \in 1..Len(evs)}

\* app.py lines 48-49: x[key].lower() is applied to the value None
LowerRaises(evs) == \E f \in Fields(evs) : f.kind = "null"

\* app.py lines 48-49 without .lower(): set(s[key] for s in events if key in s)
WalletSetRaw(evs) == {f.chars : f \in {g \in Fields(evs) : g.kind # "absent"}}

\* app.py lines 48-49: set(s[key].lower() for s in events if key in s)
WalletSet(evs) == {Lower(f.chars) : f \in {g \in Fields(evs) : g.kind # "absent"}}

\* polymarket_scraper.py lines 272-281: wallet = e.get(key); if wallet:
\* the_set.add(wallet.lower())
TruthyWallets(evs) ==
    {Lower(f.chars) : f \in {g \in Fields(evs) : g.kind = "str" /\ g.chars # <<>>}}

Frac(n, d) == [num |-> n, den |-> d]

\* app.py line 79
RedeemerSplitterRatio(nr, ns) == IF ns > 0 THEN Frac(nr, ns) ELSE Frac(0, 1)

\* app.py line 85 without the test of len(total_active)
RetentionRateUnguarded(nret, nact) == Frac(nret * 100, nact)

\* app.py line 85
RetentionRate(nret, nact) == IF nact > 0 THEN Frac(nret * 100, nact) ELSE Frac(0, 1)

\* app.py lines 55-56 without the difference: every wallet of the month is new
NewOfAll(current, seen) == current

\* app.py lines 55-56: new_splitters = splitters - all_splitters_seen
NewOf(current, seen) == current \ seen

\* app.py line 57 against all_splitters_seen
NewUsersOfSplitters(total_active, users_seen, splitters_seen) ==
    total_active \ splitters_seen

\* app.py line 57: new_users = total_active - all_users_seen
NewUsers(total_active, users_seen, splitters_seen) == total_active \ users_seen

\* app.py lines 64-66 as an assignment: seen = current
SeenReplaced(seen, current) == current

\* app.py lines 64-66: seen.update(current)
SeenAfter(seen, current) == seen \cup current

\* app.py line 52 as the union
BothAsUnion(a, b) == a \cup b

\* app.py line 52, polymarket_scraper.py line 285: a.intersection(b)
Both(a, b) == a \cap b

\* polymarket_scraper.py lines 266-299
calculate_december_metrics(ss, rs) ==
    LET traders      == TruthyWallets(ss)
        redeemers    == TruthyWallets(rs)
        total_active == traders \cup redeemers
        both         == Both(traders, redeemers)
    IN [month                |-> "December 2025",
        unique_traders       |-> Cardinality(traders),
        unique_redeemers     |-> Cardinality(redeemers),
        monthly_active_users |-> Cardinality(total_active),
        traded_and_redeemed  |-> Cardinality(both),
        only_traded          |-> Cardinality(traders \ redeemers),
        only_redeemed        |-> Cardinality(redeemers \ traders),
        total_splits         |-> Len(ss),
        total_redemptions    |-> Len(rs)]

\* The strings of the "wallets" pool, in the order files list them.
PoolWallets == <<Str(<<"a">>), Str(<<"A">>), Str(<<"b">>)>>

\* The wallet fields of the "fields" pool that hold no wallet.
PoolMalformed == {Absent, Null, Str(<<>>)}

\* json.load of a data file.  Pool "wallets": at most two events with the
\* wallets a, A, b.  Pool "fields": at most one event of wallet a, then at
\* most one event whose wallet field is absent, null or the empty string.
FileLists(p) ==
    IF p = "fields"
      THEN {<<>>, <<Str(<<"a">>)>>}
             \cup {<<f>> : f \in PoolMalformed}
             \cup {<<Str(<<"a">>), f>> : f \in PoolMalformed}
      ELSE LET F == PoolWallets
               n == Len(F)
           IN {<<>>} \cup {<<F[i]>> : i \in 1..n}
                     \cup {<<F[ij[1]], F[ij[2]]>> :
                               ij \in {q \in (1..n) \X (1..n) : q[1] <= q[2]}}

MissingFile == [present |-> FALSE, events |-> <<>>]
DataFile(evs) == [present |-> TRUE, events |-> evs]

Letters == {"a", "b", "c", "d", "A", "B", "C", "D"}

\* the lists that hold each wallet of ws once or twice and nothing else, in
\* any order and letter case
Variants(ws) ==
    UNION {{[k \in 1..n |-> Str(<<l[k]>>)] :
                l \in {x \in [1..n -> Letters] :
                          {<<LowerChar(x[k])>> : k \in 1..n} = ws}}
             : n \in {Cardinality(ws), Cardinality(ws) + 1}}

\* The documented example: in the first month a and b split and b and c
\* redeem, in the second a and d split and nobody redeems; later months
\* hold no event.
ExampleInputs(mo) ==
    CASE mo = 1 -> {<<DataFile(ss), DataFile(rs)>> :
                        ss \in Variants({<<"a">>, <<"b">>}),
                        rs \in Variants({<<"b">>, <<"c">>})}
      [] mo = 2 -> {<<DataFile(ss), DataFile(<<>>)>> :
                        ss \in Variants({<<"a">>, <<"d">>})}
      [] OTHER  -> {<<DataFile(<<>>), DataFile(<<>>)>>}

\* The two files of a month, as the directory may hold them.
MonthInputs(p, mo) ==
    IF p = "example" THEN ExampleInputs(mo)
    ELSE LET Files == {MissingFile} \cup {DataFile(l) : l \in FileLists(p)}
         IN Files \X Files

FilesPresent(sf, rf) == [splits |-> sf.present, redemptions |-> rf.present]

\* app.py lines 40, 44 with only the first open inside the try
MissingSplitsOnly(sf, rf) == ~sf.present

\* app.py lines 40, 44, 91: one of the two open() raises FileNotFoundError
Missing(sf, rf) == ~sf.present \/ ~rf.present

\* app.py lines 68-89
Record(mo, ss, rs, splitters, redeemers, new_users, new_splitters, new_redeemers, returning_users, users_seen, splitters_seen, redeemers_seen) ==
    LET total_active == splitters \cup redeemers
    IN [month                   |-> MonthName(mo),
        unique_splitters        |-> Cardinality(splitters),
        unique_redeemers        |-> Cardinality(redeemers),
        monthly_active_users    |-> Cardinality(total_active),
        split_and_redeemed      |-> Cardinality(Both(splitters, redeemers)),
        only_split              |-> Cardinality(splitters \ redeemers),
        only_redeemed           |-> Cardinality(redeemers \ splitters),
        total_splits            |-> Len(ss),
        total_redemptions       |-> Len(rs),
        redeemer_splitter_ratio |-> RedeemerSplitterRatio(Cardinality(redeemers),
                                                          Cardinality(splitters)),
        new_users               |-> Cardinality(new_users),
        new_splitters           |-> Cardinality(new_splitters),
        new_redeemers           |-> Cardinality(new_redeemers),
        returning_users         |-> Cardinality(returning_users),
        retention_rate          |-> RetentionRate(Cardinality(returning_users),
                                                  Cardinality(total_active)),
        cumulative_users        |-> Cardinality(users_seen),
        cumulative_splitters    |-> Cardinality(splitters_seen),
        cumulative_redeemers    |-> Cardinality(redeemers_seen)]

AggOthers == <<planner_vars, query_vars, fetch_vars, run_vars, load_vars>>

\* app.py lines 35-89: both files of the month are read and aggregated
AggMonth ==
    /\ apc = "loop"
    /\ month <= Len(months)
    /\ \E inp \in MonthInputs(pool, months[month]) :
        LET sf == inp[1]
            rf == inp[2]
            splitters       == WalletSet(sf.events)
            redeemers       == WalletSet(rf.events)
            total_active    == splitters \cup redeemers
            new_splitters   == NewOf(splitters, all_splitters_seen)
            new_redeemers   == NewOf(redeemers, all_redeemers_seen)
            new_users       == NewUsers(total_active, all_users_seen, all_splitters_seen)
            returning_users == total_active \ new_users
        IN /\ ~Missing(sf, rf)
           /\ ~LowerRaises(sf.events) /\ ~LowerRaises(rf.events)
           /\ splits' = sf.events
           /\ redemptions' = rf.events
           /\ all_splitters_seen' = SeenAfter(all_splitters_seen, splitters)
           /\ all_redeemers_seen' = SeenAfter(all_redeemers_seen, redeemers)
           /\ all_users_seen' = SeenAfter(all_users_seen, total_active)
           /\ monthly_metrics' = Append(monthly_metrics,
                 Record(months[month], sf.events, rf.events, splitters, redeemers,
                        new_users, new_splitters, new_redeemers, returning_users,
                        all_users_seen', all_splitters_seen', all_redeemers_seen'))
           /\ cohorts' = Append(cohorts,
                 [total_active |-> total_active, new_users |-> new_users,
                  returning_users |-> returning_users])
           /\ activity' = Append(activity,
                 [splits |-> splitters, redemptions |-> redeemers])
           /\ presence' = Append(presence, FilesPresent(sf, rf))
    /\ month' = month + 1
    /\ UNCHANGED <<apc, pool, warnings, agg_error, metrics>>
    /\ UNCHANGED AggOthers

\* app.py lines 40-45, 91-93: a file of the month does not exist; warn and
\* continue with the next month
AggMissing ==
    /\ apc = "loop"
    /\ month <= Len(months)
    /\ \E inp \in MonthInputs(pool, months[month]) :
        /\ Missing(inp[1], inp[2])
        /\ splits' = IF inp[1].present THEN inp[1].events ELSE splits
        /\ presence' = Append(presence, FilesPresent(inp[1], inp[2]))
    /\ warnings' = Append(warnings, MonthName(months[month]))
    /\ month' = month + 1
    /\ UNCHANGED <<apc, pool, redemptions, all_splitters_seen, all_redeemers_seen,
                   all_users_seen, monthly_metrics, agg_error, metrics, cohorts,
                   activity>>
    /\ UNCHANGED AggOthers

\* app.py lines 48-49: .lower() of a null wallet raises AttributeError, which
\* `except FileNotFoundError` does not catch: it leaves load_monthly_data,
\* whose locals are gone
AggRaise ==
    /\ apc = "loop"
    /\ month <= Len(months)
    /\ \E inp \in MonthInputs(pool, months[month]) :
        /\ ~Missing(inp[1], inp[2])
        /\ LowerRaises(inp[1].events) \/ LowerRaises(inp[2].events)
        /\ presence' = Append(presence, FilesPresent(inp[1], inp[2]))
    /\ splits' = <<>> /\ redemptions' = <<>>
    /\ apc' = "raised"
    /\ agg_error' = "AttributeError"
    /\ UNCHANGED <<pool, month, all_splitters_seen, all_redeemers_seen, all_users_seen,
                   monthly_metrics, warnings, metrics, cohorts, activity>>
    /\ UNCHANGED AggOthers

\* app.py lines 35, 95: the months are exhausted, return the frame; the
\* lists loaded last are gone with the call
AggReturn ==
    /\ apc = "loop"
    /\ month > Len(months)
    /\ apc' = "done"
    /\ splits' = <<>> /\ redemptions' = <<>>
    /\ UNCHANGED <<pool, month, all_splitters_seen, all_redeemers_seen, all_users_seen,
                   monthly_metrics, warnings, agg_error, metrics, cohorts, activity,
                   presence>>
    /\ UNCHANGED AggOthers

\* polymarket_scraper.py lines 303-307: nothing was loaded
AnalyzeNoData ==
    /\ apc = "analyze"
    /\ splits = <<>> /\ redemptions = <<>>
    /\ apc' = "no_data"
    /\ UNCHANGED <<pool, month, splits, redemptions, all_splitters_seen,
                   all_redeemers_seen, all_users_seen, monthly_metrics, warnings,
                   agg_error, metrics, cohorts, activity, presence>>
    /\ UNCHANGED AggOthers

\* polymarket_scraper.py lines 303-313: metrics =
\* calculate_december_metrics(splits, redemptions)
Analyze ==
    /\ apc = "analyze"
    /\ ~(splits = <<>> /\ redemptions = <<>>)
    /\ apc' = "analyzed"
    /\ metrics' = calculate_december_metrics(splits, redemptions)
    /\ UNCHANGED <<pool, month, splits, redemptions, all_splitters_seen,
                   all_redeemers_seen, all_users_seen, monthly_metrics, warnings,
                   agg_error, cohorts, activity, presence>>
    /\ UNCHANGED AggOthers

(***************************************************************************)
(* Specifications.                                                         *)
(***************************************************************************)
NextPlanner == PlanPeriod \/ PlanReturn

SpecPlanner == InitPlanner /\ [][NextPlanner]_vars

\* One call query_graphql(query, max_retries) against an upstream that may fail
\* every request.
InitQuery ==
    /\ qpc = "for"
    /\ max_retries \in 0..DEFAULT_MAX_RETRIES
    /\ attempt = 0
    /\ status = NONE /\ wait_time = 0 /\ sleep_from = NONE
    /\ error = NoError /\ result = NoResult
    /\ statuses = <<>> /\ delays = <<>>
    /\ faults = DEFAULT_MAX_RETRIES
    /\ PlannerIdle
    /\ FetchIdle
    /\ RunIdle
    /\ AggIdle
    /\ LoadIdle

NextQuery ==
    \/ QueryFor
    \/ QueryOk
    \/ QueryServerError
    \/ QueryOtherStatus
    \/ QueryNetworkError
    \/ QueryWake

SpecQuery == InitQuery /\ [][NextQuery]_vars

\* The call is sequential code: a step that can be taken is taken.
SpecQueryFair == SpecQuery /\ WF_vars(NextQuery)

\* One call fetch_data_for_period(start_timestamp, end_timestamp); the steps of
\* query_graphql are enabled only while a call of it is running.
NextFetch ==
    \/ FetchQuery
    \/ FetchRaise
    \/ FetchErrors
    \/ FetchEmpty
    \/ FetchPage
    \/ QueryFor
    \/ QueryOk
    \/ QueryServerError
    \/ QueryOtherStatus
    \/ QueryNetworkError
    \/ QueryWake

SpecFetch == InitFetch /\ [][NextFetch]_vars

\* The program is sequential: a step that can be taken is taken.
SpecFetchFair == SpecFetch /\ WF_vars(NextFetch)

\* The program is run as fetch_splits_only or fetch_redemptions_only on an
\* empty polymarket_data directory, and once more after it has ended.  The
\* subgraph answers 200, or once with a status the client does not retry; the
\* retried statuses are explored in SpecQuery and SpecFetch.
InitRun ==
    /\ rpc = "start"
    /\ data_type \in {"splits", "redemptions"}
    /\ upstream \in RunUpstreams
    /\ tiebreak \in {"asc", "desc"}
    /\ run_no = 1
    /\ period_i = 0
    /\ all_events = <<>> /\ period_events = <<>>
    /\ window_files = <<>> /\ cumulative_file = NoFile
    /\ run_windows = <<>>
    /\ first_files = NoFiles
    /\ saw_errors = FALSE
    /\ faults = 1
    /\ qpc = "idle"
    /\ max_retries = 0 /\ attempt = 0
    /\ status = NONE /\ wait_time = 0 /\ sleep_from = NONE
    /\ error = NoError /\ result = NoResult
    /\ statuses = <<>> /\ delays = <<>>
    /\ fpc = "idle"
    /\ start_timestamp = 0 /\ end_timestamp = 0 /\ last_timestamp = 0
    /\ all_data = <<>> /\ query_count = 0
    /\ pages = <<>> /\ stop = NONE
    /\ PlannerIdle
    /\ AggIdle
    /\ LoadIdle

NextRun ==
    \/ RunStart
    \/ PlanPeriod
    \/ PlanReturn
    \/ RunPlanned
    \/ RunFetch
    \/ FetchQuery
    \/ QueryFor
    \/ QueryOk
    \/ QueryOtherStatus
    \/ FetchRaise
    \/ FetchErrors
    \/ FetchEmpty
    \/ FetchPage
    \/ RunFetched
    \/ RunFetchRaised
    \/ RunSaveWindow
    \/ RunSaveCumulative
    \/ RunReturn
    \/ RunCrash
    \/ RunAgain
    \/ LoadExisting
    \/ LoadRaise

SpecRun == InitRun /\ [][NextRun]_vars

\* The dashboard calls load_monthly_data on a directory whose files are any
\* lists of a pool, or run_analysis calls calculate_december_metrics on any
\* two lists of a pool.
InitAgg ==
    /\ pool \in {"wallets", "fields"}
    /\ \/ /\ apc = "loop"
          /\ month = 1
          /\ splits = <<>> /\ redemptions = <<>>
       \/ /\ apc = "analyze"
          /\ month = 0
          /\ splits \in FileLists(pool)
          /\ redemptions \in FileLists(pool)
    /\ all_splitters_seen = {} /\ all_redeemers_seen = {} /\ all_users_seen = {}
    /\ monthly_metrics = <<>> /\ warnings = <<>>
    /\ agg_error = NONE
    /\ metrics = NoMetrics
    /\ cohorts = <<>> /\ activity = <<>> /\ presence = <<>>
    /\ PlannerIdle /\ QueryIdle /\ faults = 0 /\ FetchIdle /\ RunIdle
    /\ LoadIdle

NextAgg ==
    \/ AggMonth
    \/ AggMissing
    \/ AggRaise
    \/ AggReturn
    \/ AnalyzeNoData
    \/ Analyze

SpecAgg == InitAgg /\ [][NextAgg]_vars

\* The dashboard calls load_monthly_data on the directory of the documented
\* example.
InitAggExample ==
    /\ pool = "example"
    /\ apc = "loop"
    /\ month = 1
    /\ splits = <<>> /\ redemptions = <<>>
    /\ all_splitters_seen = {} /\ all_redeemers_seen = {} /\ all_users_seen = {}
    /\ monthly_metrics = <<>> /\ warnings = <<>>
    /\ agg_error = NONE
    /\ metrics = NoMetrics
    /\ cohorts = <<>> /\ activity = <<>> /\ presence = <<>>
    /\ PlannerIdle /\ QueryIdle /\ faults = 0 /\ FetchIdle /\ RunIdle
    /\ LoadIdle

NextAggExample == AggMonth \/ AggReturn

SpecAggExample == InitAggExample /\ [][NextAggExample]_vars

Init == InitPlanner \/ InitQuery \/ InitFetch \/ InitRun \/ InitAgg \/ InitAggExample
Next == NextPlanner \/ NextQuery \/ NextFetch \/ NextRun \/ NextAgg
Spec == Init /\ [][Next]_vars

(***************************************************************************)
(* Properties.                                                             *)
(***************************************************************************)
Last(s) == s[Len(s)]

RECURSIVE Flatten(_)
Flatten(ps) == IF ps = <<>> THEN <<>> ELSE Head(ps) \o Flatten(Tail(ps))

\* The outcomes after which another request may follow.
Retryable == {"502", "503", "504", "NET"}

\* C1: for a range with end > start and a positive window length, the periods
\* get_periods returns are ordered, contiguous and non-overlapping, start at the
\* range start and end at the range end; every non-final period is exactly one
\* window long, the final one is non-empty and at most one window long.
C1_PeriodsCoverRange ==
    (ppc = "done" /\ range_end > range_start /\ window > 0) =>
        LET n == Len(periods) IN
        /\ n >= 1
        /\ periods[1].start = range_start
        /\ periods[n].end = range_end
        /\ \A i \in 1..n :
            /\ periods[i].start < periods[i].end
            /\ periods[i].end - periods[i].start <= window
        /\ \A i \in 1..(n - 1) :
            /\ periods[i].end = periods[i + 1].start
            /\ periods[i].end - periods[i].start = window

\* C1 witness: a returned plan of at least three periods whose last period is
\* shorter than the window.
C1_Witness ==
    /\ ppc = "done"
    /\ Len(periods) >= 3
    /\ Last(periods).end - Last(periods).start < window
    /\ Last(periods).end = range_end

\* C2: one call sends at most max_retries requests; a request is followed by
\* another one only when it ended in 502, 503, 504 or a network exception; the
\* call returns exactly when a response has status 200, with that response's
\* body, and that response is the last request of the call.
C2_BoundedRetries ==
    /\ Len(statuses) <= max_retries
    /\ \A i \in 1..(Len(statuses) - 1) : statuses[i] \in Retryable
    /\ (statuses # <<>> /\ Last(statuses) = "200") =>
            /\ qpc = "returned"
            /\ result \in UpstreamBodies
    /\ qpc = "returned" => (statuses # <<>> /\ Last(statuses) = "200")
    /\ qpc \in {"post", "sleep"} => attempt < max_retries

\* C2 witness: a call that returned on its fifth request, after failures of
\* both kinds.
C2_Witness ==
    /\ qpc = "returned"
    /\ Len(statuses) = DEFAULT_MAX_RETRIES
    /\ \E i, j \in 1..Len(statuses) : statuses[i] = "503" /\ statuses[j] = NET

\* C3: a response whose status is neither 200 nor 502/503/504 makes the call
\* raise on that attempt, whatever the attempt number, without a delay for it
\* and without a further request, and the error carries the status code.
C3_OtherStatusFatal ==
    /\ \A i \in 1..(Len(statuses) - 1) : statuses[i] \notin {"400", "500"}
    /\ (statuses # <<>> /\ Last(statuses) \in {"400", "500"}) =>
            /\ qpc = "raised"
            /\ error.type = "Exception"
            /\ error.msg = "Query failed"
            /\ error.code = Last(statuses)
            /\ attempt = Len(statuses) - 1
            /\ Len(delays) = Len(statuses) - 1

\* C3 witness: status 500 on the fourth request.
C3_Witness ==
    /\ qpc = "raised"
    /\ Len(statuses) = 4
    /\ Last(statuses) = "500"

\* C4: the k-th delay of a call (k counted from 0, the delay after failed
\* attempt k) is at least 2^k s and less than 2^k + 1 s; three 503 responses
\* followed by a 200 make the call return after exactly three delays.
C4_Backoff ==
    /\ \A k \in 0..(Len(delays) - 1) :
        /\ delays[k + 1] >= Pow2(k) * JitterSteps
        /\ delays[k + 1] < (Pow2(k) + 1) * JitterSteps
    /\ qpc = "sleep" => (Len(delays) = attempt + 1 /\ wait_time = Last(delays))
    /\ statuses = <<"503", "503", "503", "200">> =>
            /\ qpc = "returned"
            /\ Len(delays) = 3

\* C4 witness: 503, 503, 503, 200 with the largest jitter on the third delay.
C4_Witness ==
    /\ statuses = <<"503", "503", "503", "200">>
    /\ qpc = "returned"
    /\ Len(delays) = 3
    /\ delays[3] = Pow2(2) * JitterSteps + (JitterSteps - 1)

\* Every one of the max_retries attempts was made and failed retryably.
AllAttemptsFailed ==
    /\ Len(statuses) = max_retries
    /\ \A i \in 1..Len(statuses) : statuses[i] \in Retryable

\* After exhaustion the call sends nothing more and returns nothing, and the
\* error it raises differs from every error raised for a non-retryable status.
ExhaustionOutcome ==
    AllAttemptsFailed =>
        /\ qpc \in {"sleep", "for", "raised"}
        /\ qpc = "for" => attempt = max_retries
        /\ qpc = "raised" =>
            /\ error \in {NetworkError, MaxRetriesExceeded}
            /\ \A code \in HttpStatuses : error # QueryFailed(code)
            /\ error.msg # "Query failed"

\* C5: when all max_retries attempts ended in a retryable failure (502, 503,
\* 504 or a network exception, in any mix) the call ends by raising, and the
\* error it raises differs from every error raised for a non-retryable status.
C5_ExhaustionFatal ==
    /\ []ExhaustionOutcome
    /\ AllAttemptsFailed ~> (qpc = "raised" /\ error # NoError)

\* C5 witness: five attempts, 5xx and network failures mixed, the last one a
\* 5xx response, and the call has raised.
C5_Witness ==
    /\ AllAttemptsFailed
    /\ max_retries = DEFAULT_MAX_RETRIES
    /\ qpc = "raised"
    /\ Last(statuses) = "504"
    /\ \E i \in 1..Len(statuses) : statuses[i] = NET

\* The response being handled is a 200 with a top-level errors field.
ErrorsInHand == fpc = "wait" /\ qpc = "returned" /\ result.kind = "errors"

\* C6: a 200 response with an errors field ends the window without raising:
\* the function returns what it had accumulated, and no query follows.
C6_ErrorsStopWindow ==
    /\ [][ErrorsInHand =>
            /\ fpc' = "done"
            /\ stop' = "errors"
            /\ all_data' = all_data
            /\ all_data' = Flatten(pages)
            /\ query_count' = query_count
            /\ qpc' = "idle"]_vars
    /\ [][stop = "errors" => UNCHANGED vars]_vars

\* C6 witness: the errors response came after one page had been accumulated.
C6_Witness ==
    /\ fpc = "done"
    /\ stop = "errors"
    /\ Len(pages) = 1
    /\ all_data = pages[1]

Terminated == fpc \in {"done", "raised"}

\* C7: the cursor starts at the period end and strictly decreases with every
\* non-empty page, and the pagination loop terminates, on an empty page, a
\* short page, an errors response or a fatal error.
C7_Terminates ==
    /\ [](query_count = 0 => last_timestamp = end_timestamp)
    /\ [][pages' # pages => last_timestamp' < last_timestamp]_vars
    /\ [](last_timestamp <= end_timestamp)
    /\ [](Terminated => stop \in {"empty", "short", "errors", "raised"})
    /\ <>Terminated

\* C7 witness: the loop ended on an empty page that followed a full page.
C7_Witness ==
    /\ fpc = "done"
    /\ stop = "empty"
    /\ Len(pages) >= 1
    /\ query_count = Len(pages) + 1
    /\ last_timestamp < end_timestamp

\* C8: the result never holds an upstream event twice, and every event of a
\* later page is strictly older than every event of every earlier page.
C8_NoDuplicates ==
    /\ \A i, j \in 1..Len(all_data) : i # j => all_data[i].id # all_data[j].id
    /\ \A a, b \in 1..Len(pages) : a < b =>
            \A i \in 1..Len(pages[a]), j \in 1..Len(pages[b]) :
                IntOf(pages[b][j].timestamp) < IntOf(pages[a][i].timestamp)

\* C8 witness: two pages were fetched from an upstream in which two fetched
\* events share a timestamp.
C8_Witness ==
    /\ fpc = "done"
    /\ Len(pages) = 2
    /\ \E i, j \in 1..Len(all_data) :
            i # j /\ all_data[i].timestamp = all_data[j].timestamp

InWindow == Matching(upstream, start_timestamp, end_timestamp)

Fetched == {all_data[k].id : k \in 1..Len(all_data)}

\* C9: when the loop stops on an empty or a short page, the result holds every
\* upstream event of the window.
C9_WindowExhausted ==
    (fpc = "done" /\ stop \in {"empty", "short"}) => InWindow \subseteq Fetched

DistinctTimestamps ==
    \A i, j \in InWindow : i # j => upstream[i] # upstream[j]

\* C10: when the events of the window have pairwise distinct timestamps and
\* the loop stops on an empty or a short page, the result is exactly the
\* events of the window, each once, in descending timestamp order.
C10_ExactWhenDistinct ==
    (fpc = "done" /\ stop \in {"empty", "short"} /\ DistinctTimestamps) =>
        /\ Fetched = InWindow
        /\ Len(all_data) = Cardinality(InWindow)
        /\ \A k \in 1..Len(all_data) :
                all_data[k] = Event(upstream, all_data[k].id)
        /\ \A k \in 1..(Len(all_data) - 1) :
                IntOf(all_data[k].timestamp) > IntOf(all_data[k + 1].timestamp)

\* C10 witness: more events than one page, all of the window, fetched in two
\* pages while the upstream also holds an event outside the window.
C10_Witness ==
    /\ fpc = "done"
    /\ stop = "short"
    /\ DistinctTimestamps
    /\ Len(all_data) > batch_size
    /\ Cardinality(InWindow) < Len(upstream)

\* the events of the windows a run has fetched, in the order it fetched them
RECURSIVE RunFlat(_)
RunFlat(ws) == IF ws = <<>> THEN <<>> ELSE Head(ws).events \o RunFlat(Tail(ws))

\* the windows of this run that are complete: fetched and saved in both files
Completed == {j \in 1..Len(run_windows) : j < period_i}

\* C11: a run fetches the windows in the planner's order; once window k is
\* complete, the file of its label holds its events and the cumulative file
\* holds the events of windows 1..k of this run, concatenated; wherever the
\* process stops, every window completed before the one in flight is in its
\* file.
C11_OrderedPersistence ==
    /\ (rpc \in {"loop", "fetch", "save_window", "save_cumulative"}) =>
          /\ Len(run_windows) = (IF rpc \in {"loop", "fetch"} THEN period_i - 1 ELSE period_i)
          /\ \A j \in 1..Len(run_windows) : run_windows[j].name = periods[j].name
    /\ (rpc = "fetch") =>
          /\ start_timestamp = periods[period_i].start_ts
          /\ end_timestamp = periods[period_i].end_ts
    /\ \A j \in Completed :
          FileAt(window_files, run_windows[j].name) = OkFile(run_windows[j].events)
    /\ (rpc \in {"loop", "fetch", "done", "raised"} /\ Completed # {}) =>
          cumulative_file = OkFile(RunFlat(run_windows))

\* the process was stopped in the third window, after two windows with events
C11_Witness ==
    /\ rpc = "crashed"
    /\ period_i = 3
    /\ Completed = {1, 2}
    /\ run_windows[1].events # <<>>
    /\ run_windows[2].events # <<>>

\* both runs of the program went through all their windows and returned
BothRunsReturned == run_no = 2 /\ rpc = "done" /\ first_files.taken

SameFilesAsFirstRun ==
    /\ window_files = first_files.w
    /\ cumulative_file = first_files.c

WindowEvents(n) == Matching(upstream, TimestampOf(n[1]), TimestampOf(n[2]))

FileEvents(f) == {f.events[k].id : k \in 1..Len(f.events)}

\* C13: every window file a run has written is a whole JSON document that
\* holds every upstream event of its window; a window that was not fetched
\* in full has no file.
C13_WindowAtomic ==
    \A n \in DOMAIN window_files :
        /\ window_files[n].state = "ok"
        /\ FileEvents(window_files[n]) = WindowEvents(n)

\* the wallet strings of the events of the k-th month load_monthly_data has
\* processed
Active(k) == activity[k].splits \cup activity[k].redemptions

\* the first processed month in which the wallet w is active
FirstActive(w) ==
    CHOOSE k \in 1..Len(activity) :
        /\ w \in Active(k)
        /\ \A j \in 1..(k - 1) : w \notin Active(j)

\* C14: over the months load_monthly_data has processed, a wallet is among
\* the new users of exactly one month, the first in which it is active, and
\* among the returning users of every later month in which it is active; a
\* wallet that is not active in a month is in neither count of that month.
C14_NewOnceThenReturning ==
    \A k \in 1..Len(cohorts) :
        /\ monthly_metrics[k].new_users = Cardinality(cohorts[k].new_users)
        /\ monthly_metrics[k].returning_users = Cardinality(cohorts[k].returning_users)
        /\ \A w \in Active(k) :
              /\ (w \in cohorts[k].new_users) <=> (k = FirstActive(w))
              /\ (w \in cohorts[k].returning_users) <=> (k > FirstActive(w))
        /\ \A j \in 1..Len(cohorts) : \A w \in Active(j) \ Active(k) :
              w \notin cohorts[k].new_users \cup cohorts[k].returning_users

\* a wallet that only redeemed in the first month returns in the second,
\* where another wallet is new
C14_Witness ==
    /\ Len(cohorts) = 2
    /\ \E w \in Active(1) :
          /\ w \notin activity[1].splits
          /\ w \in cohorts[1].new_users
          /\ w \in cohorts[2].returning_users
    /\ \E w \in Active(2) : w \in cohorts[2].new_users

\* C15: in every record of load_monthly_data the three exclusive counts add
\* up to the active users, and each exclusive count with the common count to
\* the wallets of its activity; the dict of calculate_december_metrics obeys
\* the same identities with traders for splitters.
C15_PartitionIdentities ==
    /\ \A k \in 1..Len(monthly_metrics) :
          LET r == monthly_metrics[k]
          IN /\ r.only_split + r.only_redeemed + r.split_and_redeemed
                    = r.monthly_active_users
             /\ r.only_split + r.split_and_redeemed = r.unique_splitters
             /\ r.only_redeemed + r.split_and_redeemed = r.unique_redeemers
    /\ (apc = "analyzed") =>
          /\ metrics.only_traded + metrics.only_redeemed + metrics.traded_and_redeemed
                = metrics.monthly_active_users
          /\ metrics.only_traded + metrics.traded_and_redeemed = metrics.unique_traders
          /\ metrics.only_redeemed + metrics.traded_and_redeemed = metrics.unique_redeemers

\* a month with a wallet that only split and one that only redeemed, then a
\* month with a wallet that did both beside one that only split
C15_Witness ==
    /\ Len(monthly_metrics) = 2
    /\ monthly_metrics[1].only_split = 1
    /\ monthly_metrics[1].only_redeemed = 1
    /\ monthly_metrics[2].split_and_redeemed = 1
    /\ monthly_metrics[2].only_split = 1

\* C16: in every record returning_users <= monthly_active_users and
\* 0 <= retention_rate <= 100; retention_rate is 0 when the month has no
\* active wallet and redeemer_splitter_ratio is 0 when it has no splitter;
\* no division has a zero divisor.
C16_RatesGuarded ==
    \A k \in 1..Len(monthly_metrics) :
        LET r     == monthly_metrics[k]
            rate  == r.retention_rate
            ratio == r.redeemer_splitter_ratio
        IN /\ r.returning_users <= r.monthly_active_users
           /\ rate.den > 0 /\ ratio.den > 0
           /\ 0 <= rate.num /\ rate.num <= 100 * rate.den
           /\ (r.monthly_active_users = 0) => rate.num = 0
           /\ (r.monthly_active_users > 0) =>
                 rate.num * r.monthly_active_users = 100 * r.returning_users * rate.den
           /\ (r.unique_splitters = 0) => ratio.num = 0
           /\ (r.unique_splitters > 0) =>
                 ratio.num * r.unique_splitters = r.unique_redeemers * ratio.den

\* a month without any active wallet, then a month with two redeemers and
\* no splitter
C16_Witness ==
    /\ Len(monthly_metrics) = 2
    /\ monthly_metrics[1].monthly_active_users = 0
    /\ monthly_metrics[2].unique_splitters = 0
    /\ monthly_metrics[2].unique_redeemers = 2

\* the wallets of one activity in the k-th processed month
WalletsOf(k, kind) ==
    CASE kind = "splitters" -> activity[k].splits
      [] kind = "redeemers" -> activity[k].redemptions
      [] OTHER              -> Active(k)

\* computed in one pass over the events of the processed months 1..k
DistinctUpTo(k, kind) == Cardinality(UNION {WalletsOf(j, kind) : j \in 1..k})

FirstSeenIn(k, kind) ==
    Cardinality({w \in WalletsOf(k, kind) : \A j \in 1..(k - 1) : w \notin WalletsOf(j, kind)})

\* C17: after the k-th processed month, each cumulative_* of the record is
\* the number of distinct wallets of that activity in the events of months
\* 1..k, and each new_* is the number of wallets whose earliest month of that
\* activity is k.
C17_FoldIsSinglePass ==
    \A k \in 1..Len(monthly_metrics) :
        LET r == monthly_metrics[k]
        IN /\ r.cumulative_users = DistinctUpTo(k, "users")
           /\ r.cumulative_splitters = DistinctUpTo(k, "splitters")
           /\ r.cumulative_redeemers = DistinctUpTo(k, "redeemers")
           /\ r.new_users = FirstSeenIn(k, "users")
           /\ r.new_splitters = FirstSeenIn(k, "splitters")
           /\ r.new_redeemers = FirstSeenIn(k, "redeemers")

\* the second month brings back a wallet of the first, which redeems for the
\* first time, beside a wallet that is new
C17_Witness ==
    /\ Len(monthly_metrics) >= 2
    /\ monthly_metrics[1].new_redeemers = 0
    /\ monthly_metrics[2].new_users = 1
    /\ monthly_metrics[2].returning_users = 1
    /\ monthly_metrics[2].cumulative_users = 2
    /\ monthly_metrics[2].new_redeemers = 2
    /\ monthly_metrics[2].cumulative_redeemers = 2

\* C18: on the documented example, starting from empty cohort sets, the first
\* record has unique_splitters = 2, unique_redeemers = 2,
\* monthly_active_users = 3, split_and_redeemed = 1, only_split = 1,
\* only_redeemed = 1, new_users = 3 and retention_rate = 0; the second has
\* new_users = 1, returning_users = 1 and retention_rate = 50.
C18_Example ==
    (pool = "example") =>
        /\ (Len(monthly_metrics) >= 1) =>
              LET r == monthly_metrics[1]
              IN /\ r.unique_splitters = 2 /\ r.unique_redeemers = 2
                 /\ r.monthly_active_users = 3
                 /\ r.split_and_redeemed = 1
                 /\ r.only_split = 1 /\ r.only_redeemed = 1
                 /\ r.new_users = 3
                 /\ r.retention_rate.num = 0 /\ r.retention_rate.den > 0
        /\ (Len(monthly_metrics) >= 2) =>
              LET r == monthly_metrics[2]
              IN /\ r.new_users = 1
                 /\ r.returning_users = 1
                 /\ r.retention_rate.den > 0
                 /\ r.retention_rate.num = 50 * r.retention_rate.den

\* both months of the example are processed, the files holding a wallet
\* twice and in both letter cases
C18_Witness ==
    /\ pool = "example"
    /\ apc = "done"
    /\ Len(monthly_metrics) >= 2
    /\ monthly_metrics[1].total_splits = 3
    /\ monthly_metrics[2].total_splits = 3
    /\ monthly_metrics[2].total_redemptions = 0

\* load_monthly_data has just looked for the files of a month and one of the
\* two did not exist
MonthFileMissing ==
    /\ Len(presence') = Len(presence) + 1
    /\ ~(Last(presence').splits /\ Last(presence').redemptions)

\* C19: when the splits file or the redemptions file of a month is missing,
\* the step that looks for them raises nothing, appends no record, leaves the
\* three cohort sets as they were and moves on to the next month.
C19_MissingMonthSkipped ==
    [][MonthFileMissing =>
          /\ apc' = "loop" /\ agg_error' = agg_error
          /\ month' = month + 1
          /\ monthly_metrics' = monthly_metrics
          /\ all_splitters_seen' = all_splitters_seen
          /\ all_redeemers_seen' = all_redeemers_seen
          /\ all_users_seen' = all_users_seen
          /\ warnings' = Append(warnings, MonthName(months[month]))]_vars

\* the first month had splits but no redemptions file and was skipped; the
\* second month was processed from empty cohort sets
C19_Witness ==
    /\ Len(presence) = 2
    /\ presence[1].splits /\ ~presence[1].redemptions
    /\ Len(monthly_metrics) = 1
    /\ monthly_metrics[1].month = MonthName(2)
    /\ monthly_metrics[1].new_users = 2
    /\ monthly_metrics[1].cumulative_users = 2

\* the wallets of the events whose wallet field is present, not null and not
\* the empty string
WellFormedWallets(evs) ==
    {Lower(f.chars) : f \in {g \in Fields(evs) : g.kind = "str" /\ Len(g.chars) > 0}}

\* C20: in load_monthly_data and in calculate_december_metrics, an event whose
\* wallet field is absent, null or the empty string adds nothing to a wallet
\* set or cohort set and raises nothing: no exception leaves the aggregator,
\* the sets hold wallets of well-formed events only.
C20_MalformedWalletSkipped ==
    /\ apc # "raised" /\ agg_error = NONE
    /\ <<>> \notin all_splitters_seen \cup all_redeemers_seen \cup all_users_seen
    /\ \A k \in 1..Len(cohorts) : <<>> \notin cohorts[k].total_active
    /\ (apc = "loop" /\ Len(presence) > 0
            /\ Last(presence).splits /\ Last(presence).redemptions) =>
          /\ Last(activity).splits = WellFormedWallets(splits)
          /\ Last(activity).redemptions = WellFormedWallets(redemptions)
    /\ (apc = "analyzed") =>
          /\ metrics.unique_traders = Cardinality(WellFormedWallets(splits))
          /\ metrics.unique_redeemers = Cardinality(WellFormedWallets(redemptions))
          /\ metrics.monthly_active_users =
                Cardinality(WellFormedWallets(splits) \cup WellFormedWallets(redemptions))

\* a wallet string with its upper-case letters replaced by the lower-case ones
CaseFold(s) == [i \in 1..Len(s) |-> LowerChar(s[i])]

\* the wallet strings of a list of events, letter case ignored
FoldedStrings(evs) == {CaseFold(f.chars) : f \in {g \in Fields(evs) : g.kind = "str"}}

FoldedNonEmpty(evs) == {w \in FoldedStrings(evs) : Len(w) > 0}

\* the two files of the last record are the lists splits and redemptions
LastRecordLoaded ==
    /\ apc = "loop" /\ Len(presence) > 0
    /\ Last(presence).splits /\ Last(presence).redemptions

\* C21: wallet strings that differ only in letter case are one wallet.  Every
\* member of a monthly set and of a cohort set is in lower case; the counts of
\* a record are those of the wallet strings of its files with letter case
\* ignored; a wallet of the month that an earlier month held in any letter
\* case is returning, not new; calculate_december_metrics counts likewise.
C21_CaseInsensitive ==
    /\ \A w \in all_splitters_seen \cup all_redeemers_seen \cup all_users_seen :
          w = CaseFold(w)
    /\ \A k \in 1..Len(cohorts) : \A w \in cohorts[k].total_active : w = CaseFold(w)
    /\ LastRecordLoaded =>
          LET r    == Last(monthly_metrics)
              k    == Len(monthly_metrics)
              S    == FoldedStrings(splits)
              R    == FoldedStrings(redemptions)
              Seen == UNION {Active(j) : j \in 1..(k - 1)}
          IN /\ r.unique_splitters = Cardinality(S)
             /\ r.unique_redeemers = Cardinality(R)
             /\ r.monthly_active_users = Cardinality(S \cup R)
             /\ r.split_and_redeemed = Cardinality(S \cap R)
             /\ r.returning_users = Cardinality((S \cup R) \cap Seen)
             /\ r.new_users = Cardinality((S \cup R) \ Seen)
    /\ (apc = "analyzed") =>
          /\ metrics.unique_traders = Cardinality(FoldedNonEmpty(splits))
          /\ metrics.unique_redeemers = Cardinality(FoldedNonEmpty(redemptions))
          /\ metrics.traded_and_redeemed =
                Cardinality(FoldedNonEmpty(splits) \cap FoldedNonEmpty(redemptions))

\* the splits of the second month hold one wallet in both letter cases, which
\* redeemed in the first month: one splitter, returning
C21_Witness ==
    /\ LastRecordLoaded
    /\ Len(monthly_metrics) = 2
    /\ splits = <<Str(<<"a">>), Str(<<"A">>)>>
    /\ monthly_metrics[1].unique_redeemers = 1
    /\ monthly_metrics[1].unique_splitters = 0
    /\ monthly_metrics[2].unique_splitters = 1
    /\ monthly_metrics[2].returning_users = 1
    /\ monthly_metrics[2].new_users = 0

\* the record before the k-th, or zero counts before the first
CumulativeBefore(k) ==
    IF k = 1
      THEN [cumulative_users |-> 0, cumulative_splitters |-> 0, cumulative_redeemers |-> 0]
      ELSE monthly_metrics[k - 1]

RECURSIVE SumNewUsers(_)
SumNewUsers(k) == IF k = 0 THEN 0 ELSE monthly_metrics[k].new_users + SumNewUsers(k - 1)

\* C22: over the records of load_monthly_data in order, each cumulative count
\* is the cumulative count of the previous record (0 before the first) plus
\* the record's count of new wallets, for users, splitters and redeemers; the
\* cumulative counts never decrease and the last cumulative_users is the sum
\* of new_users over all records.
C22_CumulativeIsRunningSum ==
    /\ \A k \in 1..Len(monthly_metrics) :
          LET r == monthly_metrics[k]
              b == CumulativeBefore(k)
          IN /\ r.cumulative_users = b.cumulative_users + r.new_users
             /\ r.cumulative_splitters = b.cumulative_splitters + r.new_splitters
             /\ r.cumulative_redeemers = b.cumulative_redeemers + r.new_redeemers
             /\ r.cumulative_users >= b.cumulative_users
             /\ r.cumulative_splitters >= b.cumulative_splitters
             /\ r.cumulative_redeemers >= b.cumulative_redeemers
    /\ (Len(monthly_metrics) > 0) =>
          Last(monthly_metrics).cumulative_users = SumNewUsers(Len(monthly_metrics))

\* two records, each with a new user, the second with a returning one too
C22_Witness ==
    /\ apc = "done"
    /\ Len(monthly_metrics) = 2
    /\ monthly_metrics[1].new_users = 1
    /\ monthly_metrics[2].new_users = 1
    /\ monthly_metrics[2].returning_users = 1
    /\ monthly_metrics[2].new_splitters = 2
    /\ monthly_metrics[2].cumulative_users = 2

\* C23: a call of query_graphql in which every attempt failed retryably (502,
\* 503, 504 or a network exception) has, when it raises, sent max_retries
\* requests and slept max_retries - 1 times: between attempts only, not after
\* the last one.
C23_SleepsOnlyBetweenAttempts ==
    (qpc = "raised" /\ max_retries >= 1 /\ AllAttemptsFailed) =>
        /\ Len(statuses) = max_retries
        /\ Len(delays) = max_retries - 1
\* the events a per-window file of the collected kind holds
HeldInWindowFiles ==
    UNION {FileEvents(window_files[n]) : n \in DOMAIN window_files}

\* the events of the list load_existing_data built for the collected kind
LoadedEvents ==
    {loaded[data_type][k].id : k \in 1..Len(loaded[data_type])}

\* C24: after any sequence of complete or interrupted collection runs,
\* load_existing_data returns, and every event held in an existing per-window
\* file of a kind is in the list it returns for that kind.
C24_NoPersistedWindowLost ==
    /\ lpc # "raised"
    /\ lpc = "returned" => HeldInWindowFiles \subseteq LoadedEvents

\* the run has ended on the exception raised while its window period_i was
\* being fetched: the windows before it are in their files and in the
\* cumulative file
RaisedInWindow ==
    rpc = "raised" =>
        /\ error # NoError
        /\ Len(run_windows) = period_i - 1
        /\ \A j \in 1..(period_i - 1) :
              FileAt(window_files, run_windows[j].name) = OkFile(run_windows[j].events)
        /\ period_i > 1 => cumulative_file = OkFile(RunFlat(run_windows))

\* from the start of a window's fetch to the end of the run on its exception
\* no file is written, and a run that has raised does nothing more
RaisePropagates ==
    /\ (rpc = "fetch" /\ fpc = "raised") => rpc' \in {"raised", "crashed"}
    /\ rpc \in {"loop", "fetch"} => UNCHANGED <<window_files, cumulative_file>>
    /\ rpc = "raised" =>
          \/ UNCHANGED <<rpc, period_i, run_windows, window_files, cumulative_file>>
          \/ rpc' = "start" /\ run_no' = run_no + 1

\* C25: when query_graphql raises a fatal error while window k of a run is
\* being fetched, the error propagates out of the run: the file of window k is
\* neither created nor changed, the cumulative file holds exactly the
\* concatenation of windows 1..k-1 of this run (or is untouched when k = 1),
\* the files of windows 1..k-1 stay as written, and no window after k is
\* attempted.
C25_FatalErrorEndsRun == []RaisedInWindow /\ [][RaisePropagates]_vars

\* a second run raised in its second window, whose file the first run had
\* written, after a first window with events
C25_Witness ==
    /\ rpc = "raised"
    /\ run_no = 2
    /\ period_i = 2
    /\ error # NoError
    /\ run_windows[1].events # <<>>
    /\ FileAt(window_files,
              get_periods(DEC_2025_START, DEC_2025_END, WINDOW_DAYS)[2].name).state = "ok"

====
